---- MODULE Spec2Model ----
(***************************************************************************)
(* A model of playground/never-fair.ipynb: the notebook that pre-trains a  *)
(* classifier, pre-trains an adversary on the classifier's output, trains  *)
(* the two against each other, and reports fairness metrics (p%-rule,      *)
(* false-positive and false-negative rates per protected group).           *)
(*                                                                         *)
(* Four specifications share the module:                                   *)
(*   Spec             the notebook's cells run top to bottom (training)    *)
(*   SpecMetrics      p_rule, fp_rate, fn_rate on a population             *)
(*   SpecLoss         the classifier's loss in train()                     *)
(*   SpecLoad         load_GEN_data on the rows of a CSV file              *)
(*                                                                         *)
(* Numbers the notebook holds as floats are modelled as exact rationals    *)
(* (numerator/denominator pairs) or as fixed-point integers; IEEE rounding *)
(* is not modelled.  Network weights are modelled by their version (the    *)
(* number of optimizer steps applied), gradients by the set of losses      *)
(* whose backward pass has accumulated into the buffer since it was last   *)
(* zeroed.                                                                 *)
(***************************************************************************)
EXTENDS Integers, Sequences, FiniteSets

VARIABLES
    \* ---- the training run (Spec) ----
    pc,          \* the statement the notebook executes next
    nRows,       \* rows of the CSV file
    nTrain,      \* rows of the training split
    epoch,       \* the running cell's `epoch` loop variable
    batch,       \* batches the running data-loader iteration has yielded
    clfEpochs,   \* completed iterations of the N_CLF_EPOCHS loop
    advEpochs,   \* completed iterations of the N_ADV_EPOCHS loop
    combEpochs,  \* completed iterations of the N_EPOCH_COMBINED loop
    clfW,        \* version of clf.parameters(): optimizer steps applied
    advW,        \* version of adv.parameters(): optimizer steps applied
    clfGrad,     \* losses accumulated in the .grad of clf's parameters
    advGrad,     \* losses accumulated in the .grad of adv's parameters
    clfApplied,  \* the gradient the last step on clf's parameters consumed
    advApplied,  \* the gradient the last step on adv's parameters consumed
    p_y,         \* the forward output p_y the running function holds
    plots,       \* figures drawn by plot_dists
    \* ---- metrics (SpecMetrics) ----
    people,      \* the evaluated population: a sequence of [z, y, score]
    report,      \* what _performance_text computed last
    \* ---- classifier loss (SpecLoss) ----
    lossBatch,   \* the last batch: a sequence of [y, z, p]
    advNet,      \* the adversary as a function of its input
    lossOut,     \* what train() computed for the batch
    \* ---- load_GEN_data (SpecLoad) ----
    csv,         \* rows of the input file
    loaded       \* what load_GEN_data returned

trainVars == <<pc, nRows, nTrain, epoch, batch, clfEpochs, advEpochs, combEpochs,
               clfW, advW, clfGrad, advGrad, clfApplied, advApplied, p_y, plots>>
metricVars == <<people, report>>
lossVars == <<lossBatch, advNet, lossOut>>
loadVars == <<csv, loaded>>
vars == <<trainVars, metricVars, lossVars, loadVars>>

None == "none"

\* A local name that no statement has assigned yet.
Unbound == [phase |-> "unbound", epoch |-> 0, batch |-> 0, clfW |-> 0, detached |-> FALSE]

\* ------------------------------------------------------------------------
\* Bounds of the model
\* ------------------------------------------------------------------------
MinRows == 4
MaxRows == 130
MaxPeople == 6
MaxBatch == 2
MaxCsvRows == 3

\* ------------------------------------------------------------------------
\* Program constants
\* ------------------------------------------------------------------------
N_CLF_EPOCHS == 50
N_ADV_EPOCHS == 5
N_EPOCH_COMBINED == 100
batch_size == 32

\* ------------------------------------------------------------------------
\* The training run
\* ------------------------------------------------------------------------

\* train_test_split(..., test_size=0.5): the test split takes ceil(n/2) rows.
TrainSize(n) == n - ((n + 1) \div 2)

\* A faulty variant of LoaderLen: drop_last=False, the incomplete last batch is kept.
LoaderLen_KeepLast(n) == (n + batch_size - 1) \div batch_size

\* DataLoader(train_data, batch_size=32, shuffle=True, drop_last=True)
LoaderLen(n) == n \div batch_size

NumBatches == LoaderLen(nTrain)

\* Which parameters each optimizer was constructed over.
OptimizerParams(opt) == IF opt = "clf_optimizer" THEN "clf" ELSE "adv"

\* A loss, named by where it was computed.
Loss(name, ph, ep, b) == [loss |-> name, phase |-> ph, epoch |-> ep, batch |-> b]

\* optimizer.step(): the parameters of `opt` move along their current .grad.
OptStep(opt) ==
    LET net == OptimizerParams(opt) IN
    /\ clfW' = IF net = "clf" THEN clfW + 1 ELSE clfW
    /\ advW' = IF net = "adv" THEN advW + 1 ELSE advW
    /\ clfApplied' = IF net = "clf" THEN clfGrad ELSE clfApplied
    /\ advApplied' = IF net = "adv" THEN advGrad ELSE advApplied

\* loss.backward(): the loss accumulates into the .grad of every parameter
\* its graph reaches.
Backward(l, reachesClf, reachesAdv) ==
    /\ clfGrad' = IF reachesClf THEN clfGrad \cup {l} ELSE clfGrad
    /\ advGrad' = IF reachesAdv THEN advGrad \cup {l} ELSE advGrad

TrainInit ==
    /\ pc = "load"
    /\ nRows \in MinRows..MaxRows
    /\ nTrain = 0
    /\ epoch = 0
    /\ batch = 0
    /\ clfEpochs = 0
    /\ advEpochs = 0
    /\ combEpochs = 0
    /\ clfW = 0
    /\ advW = 0
    /\ clfGrad = {}
    /\ advGrad = {}
    /\ clfApplied = {}
    /\ advApplied = {}
    /\ p_y = Unbound
    /\ plots = 0

TrainIdle ==
    /\ pc = "idle"
    /\ nRows = 0
    /\ nTrain = 0
    /\ epoch = 0
    /\ batch = 0
    /\ clfEpochs = 0
    /\ advEpochs = 0
    /\ combEpochs = 0
    /\ clfW = 0
    /\ advW = 0
    /\ clfGrad = {}
    /\ advGrad = {}
    /\ clfApplied = {}
    /\ advApplied = {}
    /\ p_y = Unbound
    /\ plots = 0

NoReport == [who |-> "none"]
MetricIdle == people = <<>> /\ report = NoReport
NoLoss == [who |-> "none"]
NotLoaded == [who |-> "none"]
LossIdle == lossBatch = <<>> /\ advNet = None /\ lossOut = NoLoss
LoadIdle == csv = <<>> /\ loaded = NotLoaded

others == <<metricVars, lossVars, loadVars>>

\* X, y, Z = load_GEN_data('data/generated.data')
LoadData ==
    /\ pc = "load"
    /\ pc' = "split"
    /\ UNCHANGED <<nRows, nTrain, epoch, batch, clfEpochs, advEpochs, combEpochs,
                   clfW, advW, clfGrad, advGrad, clfApplied, advApplied, p_y, plots>>
    /\ UNCHANGED others

\* train_test_split, StandardScaler, GenDataset, DataLoader, Classifier(),
\* clf_optimizer = optim.Adam(clf.parameters())
SplitData ==
    /\ pc = "split"
    /\ nTrain' = TrainSize(nRows)
    /\ epoch' = 0
    /\ pc' = "clf_epoch"
    /\ UNCHANGED <<nRows, batch, clfEpochs, advEpochs, combEpochs,
                   clfW, advW, clfGrad, advGrad, clfApplied, advApplied, p_y, plots>>
    /\ UNCHANGED others

\* for epoch in range(N_CLF_EPOCHS): clf = pretrain_classifier(...)
ClfEpochHead ==
    /\ pc = "clf_epoch"
    /\ IF clfEpochs < N_CLF_EPOCHS
       THEN /\ epoch' = clfEpochs
            /\ batch' = 0
            /\ p_y' = Unbound
            /\ pc' = "pc_batch"
       ELSE /\ pc' = "pre_clf_test"
            /\ UNCHANGED <<epoch, batch, p_y>>
    /\ UNCHANGED <<nRows, nTrain, clfEpochs, advEpochs, combEpochs,
                   clfW, advW, clfGrad, advGrad, clfApplied, advApplied, plots>>
    /\ UNCHANGED others

\* pretrain_classifier: for x, y, _ in data_loader
PretrainClfNextBatch ==
    /\ pc = "pc_batch"
    /\ IF batch < NumBatches
       THEN /\ batch' = batch + 1
            /\ pc' = "pc_zero"
            /\ UNCHANGED clfEpochs
       ELSE /\ clfEpochs' = clfEpochs + 1
            /\ pc' = "clf_epoch"
            /\ UNCHANGED batch
    /\ UNCHANGED <<nRows, nTrain, epoch, advEpochs, combEpochs,
                   clfW, advW, clfGrad, advGrad, clfApplied, advApplied, p_y, plots>>
    /\ UNCHANGED others

\* pretrain_classifier: clf.zero_grad()
PretrainClfZeroGrad ==
    /\ pc = "pc_zero"
    /\ clfGrad' = {}
    /\ pc' = "pc_forward"
    /\ UNCHANGED <<nRows, nTrain, epoch, batch, clfEpochs, advEpochs, combEpochs,
                   clfW, advW, advGrad, clfApplied, advApplied, p_y, plots>>
    /\ UNCHANGED others

\* pretrain_classifier: p_y = clf(x)
PretrainClfForward ==
    /\ pc = "pc_forward"
    /\ p_y' = [phase |-> "pretrain_clf", epoch |-> epoch, batch |-> batch,
               clfW |-> clfW, detached |-> FALSE]
    /\ pc' = "pc_backward"
    /\ UNCHANGED <<nRows, nTrain, epoch, batch, clfEpochs, advEpochs, combEpochs,
                   clfW, advW, clfGrad, advGrad, clfApplied, advApplied, plots>>
    /\ UNCHANGED others

\* pretrain_classifier: loss = criterion(p_y, y); loss.backward()
PretrainClfBackward ==
    /\ pc = "pc_backward"
    /\ Backward(Loss("loss", "pretrain_clf", epoch, batch), ~p_y.detached, FALSE)
    /\ pc' = "pc_step"
    /\ UNCHANGED <<nRows, nTrain, epoch, batch, clfEpochs, advEpochs, combEpochs,
                   clfW, advW, clfApplied, advApplied, p_y, plots>>
    /\ UNCHANGED others

\* pretrain_classifier: optimizer.step(), called with clf_optimizer
PretrainClfStep ==
    /\ pc = "pc_step"
    /\ OptStep("clf_optimizer")
    /\ pc' = "pc_batch"
    /\ UNCHANGED <<nRows, nTrain, epoch, batch, clfEpochs, advEpochs, combEpochs,
                   clfGrad, advGrad, p_y, plots>>
    /\ UNCHANGED others

\* with torch.no_grad(): pre_clf_test = clf(test_data.X); plot_dists(...);
\* adv = Adverserial(...); adv_optimizer = optim.Adam(adv.parameters())
PreClfTest ==
    /\ pc = "pre_clf_test"
    /\ plots' = plots + 1
    /\ pc' = "adv_epoch"
    /\ UNCHANGED <<nRows, nTrain, epoch, batch, clfEpochs, advEpochs, combEpochs,
                   clfW, advW, clfGrad, advGrad, clfApplied, advApplied, p_y>>
    /\ UNCHANGED others

\* for epoch in range(N_ADV_EPOCHS): pretrain_adverserial(...)
AdvEpochHead ==
    /\ pc = "adv_epoch"
    /\ IF advEpochs < N_ADV_EPOCHS
       THEN /\ epoch' = advEpochs
            /\ batch' = 0
            /\ p_y' = Unbound
            /\ pc' = "pa_batch"
       ELSE /\ pc' = "pre_adv_test"
            /\ UNCHANGED <<epoch, batch, p_y>>
    /\ UNCHANGED <<nRows, nTrain, clfEpochs, advEpochs, combEpochs,
                   clfW, advW, clfGrad, advGrad, clfApplied, advApplied, plots>>
    /\ UNCHANGED others

\* pretrain_adverserial: for x, _, z in data_loader
PretrainAdvNextBatch ==
    /\ pc = "pa_batch"
    /\ IF batch < NumBatches
       THEN /\ batch' = batch + 1
            /\ pc' = "pa_forward"
            /\ UNCHANGED advEpochs
       ELSE /\ advEpochs' = advEpochs + 1
            /\ pc' = "adv_epoch"
            /\ UNCHANGED batch
    /\ UNCHANGED <<nRows, nTrain, epoch, clfEpochs, combEpochs,
                   clfW, advW, clfGrad, advGrad, clfApplied, advApplied, p_y, plots>>
    /\ UNCHANGED others

\* pretrain_adverserial: p_y = clf(x).detach()
PretrainAdvForward ==
    /\ pc = "pa_forward"
    /\ p_y' = [phase |-> "pretrain_adv", epoch |-> epoch, batch |-> batch,
               clfW |-> clfW, detached |-> TRUE]
    /\ pc' = "pa_zero"
    /\ UNCHANGED <<nRows, nTrain, epoch, batch, clfEpochs, advEpochs, combEpochs,
                   clfW, advW, clfGrad, advGrad, clfApplied, advApplied, plots>>
    /\ UNCHANGED others

\* pretrain_adverserial: adv.zero_grad()
PretrainAdvZeroGrad ==
    /\ pc = "pa_zero"
    /\ advGrad' = {}
    /\ pc' = "pa_backward"
    /\ UNCHANGED <<nRows, nTrain, epoch, batch, clfEpochs, advEpochs, combEpochs,
                   clfW, advW, clfGrad, clfApplied, advApplied, p_y, plots>>
    /\ UNCHANGED others

\* pretrain_adverserial: p_z = adv(p_y); loss = criterion(p_z, z); loss.backward()
PretrainAdvBackward ==
    /\ pc = "pa_backward"
    /\ Backward(Loss("loss", "pretrain_adv", epoch, batch), ~p_y.detached, TRUE)
    /\ pc' = "pa_step"
    /\ UNCHANGED <<nRows, nTrain, epoch, batch, clfEpochs, advEpochs, combEpochs,
                   clfW, advW, clfApplied, advApplied, p_y, plots>>
    /\ UNCHANGED others

\* A faulty variant of PretrainAdvOptimizer: the call passes the classifier's optimizer.
PretrainAdvOptimizer_Clf == "clf_optimizer"

\* The optimizer the N_ADV_EPOCHS loop hands to pretrain_adverserial.
PretrainAdvOptimizer == "adv_optimizer"

\* pretrain_adverserial: optimizer.step()
PretrainAdvStep ==
    /\ pc = "pa_step"
    /\ OptStep(PretrainAdvOptimizer)
    /\ pc' = "pa_batch"
    /\ UNCHANGED <<nRows, nTrain, epoch, batch, clfEpochs, advEpochs, combEpochs,
                   clfGrad, advGrad, p_y, plots>>
    /\ UNCHANGED others

\* with torch.no_grad(): pre_adv_test = adv(pre_clf_test); plot_dists(...);
\* clf_adv_criterion = nn.BCELoss(reduce=False); lambdas = torch.Tensor([20])
PreAdvTest ==
    /\ pc = "pre_adv_test"
    /\ plots' = plots + 1
    /\ pc' = "comb_epoch"
    /\ UNCHANGED <<nRows, nTrain, epoch, batch, clfEpochs, advEpochs, combEpochs,
                   clfW, advW, clfGrad, advGrad, clfApplied, advApplied, p_y>>
    /\ UNCHANGED others

\* for epoch in range(N_EPOCH_COMBINED): clf, adv = train(...)
\* On entry to train() its locals x, y, z, p_y are unbound.
CombEpochHead ==
    /\ pc = "comb_epoch"
    /\ IF combEpochs < N_EPOCH_COMBINED
       THEN /\ epoch' = combEpochs
            /\ batch' = 0
            /\ p_y' = Unbound
            /\ pc' = "tr_batch"
       ELSE /\ pc' = "done"
            /\ UNCHANGED <<epoch, batch, p_y>>
    /\ UNCHANGED <<nRows, nTrain, clfEpochs, advEpochs, combEpochs,
                   clfW, advW, clfGrad, advGrad, clfApplied, advApplied, plots>>
    /\ UNCHANGED others

\* train: for x, y, z in data_loader
TrainNextBatch ==
    /\ pc = "tr_batch"
    /\ IF batch < NumBatches
       THEN /\ batch' = batch + 1
            /\ pc' = "tr_forward"
       ELSE /\ pc' = "tr_clf_zero"
            /\ UNCHANGED batch
    /\ UNCHANGED <<nRows, nTrain, epoch, clfEpochs, advEpochs, combEpochs,
                   clfW, advW, clfGrad, advGrad, clfApplied, advApplied, p_y, plots>>
    /\ UNCHANGED others

\* train: p_y = clf(x)
TrainForward ==
    /\ pc = "tr_forward"
    /\ p_y' = [phase |-> "train", epoch |-> epoch, batch |-> batch,
               clfW |-> clfW, detached |-> FALSE]
    /\ pc' = "tr_adv_zero"
    /\ UNCHANGED <<nRows, nTrain, epoch, batch, clfEpochs, advEpochs, combEpochs,
                   clfW, advW, clfGrad, advGrad, clfApplied, advApplied, plots>>
    /\ UNCHANGED others

\* A faulty variant of TrainAdvZeroGrad: the buffer is not cleared.
TrainAdvZeroGrad_Missing ==
    /\ pc = "tr_adv_zero"
    /\ pc' = "tr_adv_backward"
    /\ UNCHANGED <<nRows, nTrain, epoch, batch, clfEpochs, advEpochs, combEpochs,
                   clfW, advW, clfGrad, advGrad, clfApplied, advApplied, p_y, plots>>
    /\ UNCHANGED others

\* train: adv.zero_grad()
TrainAdvZeroGrad ==
    /\ pc = "tr_adv_zero"
    /\ advGrad' = {}
    /\ pc' = "tr_adv_backward"
    /\ UNCHANGED <<nRows, nTrain, epoch, batch, clfEpochs, advEpochs, combEpochs,
                   clfW, advW, clfGrad, clfApplied, advApplied, p_y, plots>>
    /\ UNCHANGED others

\* train: p_adv = adv(p_y); loss_adv = adv_criterion(p_adv, z);
\*        loss_adv.backward(retain_graph=True)
TrainAdvBackward ==
    /\ pc = "tr_adv_backward"
    /\ Backward(Loss("loss_adv", "train", epoch, batch), ~p_y.detached, TRUE)
    /\ pc' = "tr_adv_step"
    /\ UNCHANGED <<nRows, nTrain, epoch, batch, clfEpochs, advEpochs, combEpochs,
                   clfW, advW, clfApplied, advApplied, p_y, plots>>
    /\ UNCHANGED others

\* train: adv_optimizer.step()
TrainAdvStep ==
    /\ pc = "tr_adv_step"
    /\ OptStep("adv_optimizer")
    /\ pc' = "tr_batch"
    /\ UNCHANGED <<nRows, nTrain, epoch, batch, clfEpochs, advEpochs, combEpochs,
                   clfGrad, advGrad, p_y, plots>>
    /\ UNCHANGED others

\* train, after the loop: clf.zero_grad()
TrainClfZeroGrad ==
    /\ pc = "tr_clf_zero"
    /\ clfGrad' = {}
    /\ pc' = "tr_clf_backward"
    /\ UNCHANGED <<nRows, nTrain, epoch, batch, clfEpochs, advEpochs, combEpochs,
                   clfW, advW, advGrad, clfApplied, advApplied, p_y, plots>>
    /\ UNCHANGED others

\* train: clf_loss = clf_criterion(p_y, y)
\*                   - (clf_adv_criterion(adv(p_y), z) * lambdas).sum()
\*        clf_loss.backward()
\* p_y is the loop's last value; with an empty data loader the name is unbound
\* and the statement raises UnboundLocalError.
TrainClfBackward ==
    /\ pc = "tr_clf_backward"
    /\ IF p_y = Unbound
       THEN /\ pc' = "raised"
            /\ UNCHANGED <<clfGrad, advGrad>>
       ELSE /\ Backward(Loss("clf_loss", "train", p_y.epoch, p_y.batch),
                        ~p_y.detached, TRUE)
            /\ pc' = "tr_clf_step"
    /\ UNCHANGED <<nRows, nTrain, epoch, batch, clfEpochs, advEpochs, combEpochs,
                   clfW, advW, clfApplied, advApplied, p_y, plots>>
    /\ UNCHANGED others

\* train: clf_optimizer.step(); return clf, adv
TrainClfStep ==
    /\ pc = "tr_clf_step"
    /\ OptStep("clf_optimizer")
    /\ pc' = "eval"
    /\ UNCHANGED <<nRows, nTrain, epoch, batch, clfEpochs, advEpochs, combEpochs,
                   clfGrad, advGrad, p_y, plots>>
    /\ UNCHANGED others

\* epoch % (N_EPOCH_COMBINED/10) == 0
PlotDue(ep) == ep % (N_EPOCH_COMBINED \div 10) = 0

\* with torch.no_grad(): clf_pred = clf(test_data.X); adv_pred = adv(clf_pred)
\* if epoch % (N_EPOCH_COMBINED/10) == 0: plot_dists(...)
Evaluate ==
    /\ pc = "eval"
    /\ plots' = IF PlotDue(epoch) THEN plots + 1 ELSE plots
    /\ combEpochs' = combEpochs + 1
    /\ pc' = "comb_epoch"
    /\ UNCHANGED <<nRows, nTrain, epoch, batch, clfEpochs, advEpochs,
                   clfW, advW, clfGrad, advGrad, clfApplied, advApplied, p_y>>
    /\ UNCHANGED others

Next ==
    \/ LoadData
    \/ SplitData
    \/ ClfEpochHead
    \/ PretrainClfNextBatch
    \/ PretrainClfZeroGrad
    \/ PretrainClfForward
    \/ PretrainClfBackward
    \/ PretrainClfStep
    \/ PreClfTest
    \/ AdvEpochHead
    \/ PretrainAdvNextBatch
    \/ PretrainAdvForward
    \/ PretrainAdvZeroGrad
    \/ PretrainAdvBackward
    \/ PretrainAdvStep
    \/ PreAdvTest
    \/ CombEpochHead
    \/ TrainNextBatch
    \/ TrainForward
    \/ TrainAdvZeroGrad
    \/ TrainAdvBackward
    \/ TrainAdvStep
    \/ TrainClfZeroGrad
    \/ TrainClfBackward
    \/ TrainClfStep
    \/ Evaluate

Init == TrainInit /\ MetricIdle /\ LossIdle /\ LoadIdle

Spec == Init /\ [][Next]_vars

\* ------------------------------------------------------------------------
\* Claims about the training run (checked under Spec)
\* ------------------------------------------------------------------------

InTrainLoop == pc \in {"tr_forward", "tr_adv_zero", "tr_adv_backward", "tr_adv_step"}
AfterTrainLoop == pc \in {"tr_clf_zero", "tr_clf_backward", "tr_clf_step"}
InAdvPhase == pc \in {"adv_epoch", "pa_batch", "pa_forward", "pa_zero",
                      "pa_backward", "pa_step", "pre_adv_test"}
InCombPhase == pc \in {"comb_epoch", "tr_batch", "eval"} \/ InTrainLoop \/ AfterTrainLoop
Halted == pc \in {"done", "raised"}

\* C3: the run is one linear sequence that terminates: the adversary's
\* pre-training starts only after all 50 classifier epochs, the combined phase
\* only after all 5 adversary epochs, and the run halts only after exactly 100
\* combined epochs.
C3_LinearRun ==
    /\ (InAdvPhase \/ InCombPhase \/ Halted) => clfEpochs = N_CLF_EPOCHS
    /\ (InCombPhase \/ Halted) => advEpochs = N_ADV_EPOCHS
    /\ Halted => combEpochs = N_EPOCH_COMBINED

\* C7: with B = floor(n_train / 32) >= 1, one call of train() steps the
\* adversary once per batch, B times, and the classifier once, after the last
\* adversary step and on the last batch; after k combined epochs the classifier
\* has had k updates and the adversary k * B in that phase.
C7_TrainStepCounts ==
    LET B == nTrain \div 32
        clf0 == N_CLF_EPOCHS * B
        adv0 == N_ADV_EPOCHS * B
    IN  B >= 1 =>
        /\ pc = "tr_batch" => /\ clfW = clf0 + epoch
                              /\ advW = adv0 + epoch * B + batch
        /\ InTrainLoop => /\ clfW = clf0 + epoch
                          /\ advW = adv0 + epoch * B + (batch - 1)
                          /\ batch \in 1..B
        /\ pc = "tr_adv_step" => p_y.batch = batch /\ p_y.epoch = epoch
        /\ AfterTrainLoop => /\ clfW = clf0 + epoch
                             /\ advW = adv0 + (epoch + 1) * B
                             /\ batch = B
                             /\ p_y.epoch = epoch /\ p_y.batch = B
        /\ pc = "eval" => /\ clfW = clf0 + epoch + 1
                          /\ advW = adv0 + (epoch + 1) * B
        /\ pc \in {"comb_epoch", "done"} => /\ clfW = clf0 + combEpochs
                                            /\ advW = adv0 + combEpochs * B

\* C7 witness: the fourth combined epoch has just finished over two full
\* batches, an incomplete third batch having been dropped.
C7_Witness ==
    /\ pc = "eval" /\ epoch = 3
    /\ nTrain \div 32 = 2 /\ nTrain % 32 # 0
    /\ clfW = N_CLF_EPOCHS * 2 + 4

\* C8: in train() the two losses write into both networks' gradient buffers,
\* yet every adv_optimizer.step() consumes exactly the current batch's loss_adv
\* and every clf_optimizer.step() exactly clf_loss of the last batch.
C8_NoStaleGradient ==
    /\ pc = "tr_adv_step" => Loss("loss_adv", "train", epoch, batch) \in clfGrad
    /\ pc = "tr_clf_step" => Loss("clf_loss", "train", epoch, batch) \in advGrad
    /\ (pc = "tr_batch" \/ AfterTrainLoop \/ pc = "eval") /\ batch >= 1
          => advApplied = {Loss("loss_adv", "train", epoch, batch)}
    /\ pc = "eval" => clfApplied = {Loss("clf_loss", "train", epoch, NumBatches)}

\* C8 witness: the first adversary step of the second combined epoch has run,
\* after clf_loss.backward() of the first epoch had written into the
\* adversary's buffer, and loss_adv of this batch sits in the classifier's.
C8_Witness ==
    /\ pc = "tr_batch" /\ epoch = 1 /\ batch = 1
    /\ advW = N_ADV_EPOCHS * NumBatches + NumBatches + 1
    /\ Loss("loss_adv", "train", 1, 1) \in clfGrad
    /\ Loss("clf_loss", "train", 0, NumBatches) \in clfApplied

\* C9: the classifier's parameters change only in a clf_optimizer.step() of
\* pretrain_classifier or train(), the adversary's only in an
\* adv_optimizer.step() of pretrain_adverserial or train(); adversary
\* pre-training and the evaluations leave the classifier as it was.
C9_ParamsChangeOnlyAtStep ==
    [][ /\ clfW' # clfW => pc \in {"pc_step", "tr_clf_step"}
        /\ advW' # advW => pc \in {"pa_step", "tr_adv_step"}
        /\ ((InAdvPhase \/ pc = "eval" \/ pc = "pre_clf_test") => clfW' = clfW) ]_vars

\* C9 witness: the adversary has been pre-trained for an epoch and the
\* classifier still has the parameters its own pre-training left.
C9_Witness ==
    /\ pc = "adv_epoch" /\ advEpochs = 1 /\ NumBatches = 2
    /\ advW = NumBatches
    /\ clfW = N_CLF_EPOCHS * NumBatches

\* ------------------------------------------------------------------------
\* The fairness metrics (SpecMetrics)
\*
\* A score is a prediction in tenths (5 is 0.5).  A fraction the notebook
\* holds as a float is the pair [num, den]: x/0 with x > 0 is inf and 0/0 is
\* nan, as numpy's division gives them.
\* ------------------------------------------------------------------------
Scores == {0, 5, 10}

\* threshold=0.5, in tenths
Threshold == 5

Rat(n, d) == [num |-> n, den |-> d]
NaN == Rat(0, 0)
IsNaN(q) == q.num = 0 /\ q.den = 0

\* p / q
RatDiv(p, q) ==
    IF IsNaN(p) \/ IsNaN(q) THEN NaN ELSE Rat(p.num * q.den, p.den * q.num)

\* np.min([p, q]): nan if either is nan
RatMin(p, q) ==
    IF IsNaN(p) \/ IsNaN(q) THEN NaN
    ELSE IF p.num * q.den <= q.num * p.den THEN p ELSE q

\* A faulty variant of NpMin: np.max
NpMin_Max(p, q) ==
    IF IsNaN(p) \/ IsNaN(q) THEN NaN
    ELSE IF p.num * q.den <= q.num * p.den THEN q ELSE p

NpMin(p, q) == RatMin(p, q)

RatTimes(q, k) == IF IsNaN(q) THEN NaN ELSE Rat(q.num * k, q.den)

\* series[mask]: the entries of `series` where `mask` is true, in order
RECURSIVE MaskSelect(_, _)
MaskSelect(series, mask) ==
    IF series = <<>> THEN <<>>
    ELSE (IF Head(mask) THEN <<Head(series)>> ELSE <<>>)
         \o MaskSelect(Tail(series), Tail(mask))

\* series.sum()
RECURSIVE SeriesSum(_)
SeriesSum(series) ==
    IF series = <<>> THEN 0 ELSE Head(series) + SeriesSum(Tail(series))

\* A faulty variant of Above: series >= threshold
Above_OrEqual(series, threshold) ==
    [i \in DOMAIN series |-> IF series[i] >= threshold THEN 1 ELSE 0]

\* series > threshold, as 0/1
Above(series, threshold) ==
    [i \in DOMAIN series |-> IF series[i] > threshold THEN 1 ELSE 0]

\* A faulty variant of NotAbove: series < threshold
NotAbove_Strict(series, threshold) ==
    [i \in DOMAIN series |-> IF series[i] < threshold THEN 1 ELSE 0]

\* series <= threshold, as 0/1
NotAbove(series, threshold) ==
    [i \in DOMAIN series |-> IF series[i] <= threshold THEN 1 ELSE 0]

\* series.mean(); the scores of `series` are in tenths when `unit` is 10
SeriesMean(series, unit) == Rat(SeriesSum(series), unit * Len(series))

\* p_rule(y_pred, z_values, threshold=0.5)
p_rule(y_pred, z_values, threshold) ==
    LET in1 == MaskSelect(y_pred, [i \in DOMAIN y_pred |-> z_values[i] = 1])
        in0 == MaskSelect(y_pred, [i \in DOMAIN y_pred |-> z_values[i] = 0])
        \* y_pred[z_values == g] > threshold if threshold else y_pred[z_values == g]
        mean1 == IF threshold # 0 THEN SeriesMean(Above(in1, threshold), 1)
                                  ELSE SeriesMean(in1, 10)
        mean0 == IF threshold # 0 THEN SeriesMean(Above(in0, threshold), 1)
                                  ELSE SeriesMean(in0, 10)
        odds == RatDiv(mean1, mean0)
    IN  RatTimes(NpMin(odds, RatDiv(Rat(1, 1), odds)), 100)

\* fp_rate(y_test, y_pred, z_values, threshold=0.5)
fp_rate(y_test, y_pred, z_values, threshold) ==
    LET z_1 == MaskSelect(y_pred, [i \in DOMAIN y_pred |-> y_test[i] = 0 /\ z_values[i] = 1])
        z_0 == MaskSelect(y_pred, [i \in DOMAIN y_pred |-> y_test[i] = 0 /\ z_values[i] = 0])
    IN  [g \in {0, 1} |->
            IF g = 0 THEN Rat(SeriesSum(Above(z_0, threshold)), Len(z_0))
                     ELSE Rat(SeriesSum(Above(z_1, threshold)), Len(z_1))]

\* fn_rate(y_test, y_pred, z_values, threshold=0.5)
fn_rate(y_test, y_pred, z_values, threshold) ==
    LET z_1 == MaskSelect(y_pred, [i \in DOMAIN y_pred |-> y_test[i] = 1 /\ z_values[i] = 1])
        z_0 == MaskSelect(y_pred, [i \in DOMAIN y_pred |-> y_test[i] = 1 /\ z_values[i] = 0])
    IN  [g \in {0, 1} |->
            IF g = 0 THEN Rat(SeriesSum(NotAbove(z_0, threshold)), Len(z_0))
                     ELSE Rat(SeriesSum(NotAbove(z_1, threshold)), Len(z_1))]

\* metrics.accuracy_score(y_test, y_pred > 0.5)
accuracy_score(y_test, y_pred) ==
    LET tagged == Above(y_pred, Threshold)
    IN  Rat(Cardinality({i \in DOMAIN y_test : y_test[i] = tagged[i]}), Len(y_test))

\* The population as the three aligned series the notebook passes around.
Y_test == [i \in DOMAIN people |-> people[i].y]
Y_pred == [i \in DOMAIN people |-> people[i].score]
Z_test == [i \in DOMAIN people |-> people[i].z]

Person == [z : {0, 1}, y : {0, 1}, score : Scores]

\* Rows are enumerated up to their order: a row is appended only after rows
\* that do not rank above it.
Rank(p) == p.z * 100 + p.y * 20 + p.score

MetricsInit == people = <<>> /\ report = NoReport

AddPerson ==
    /\ report.who = "none"
    /\ Len(people) < MaxPeople
    /\ \E p \in Person :
          /\ IF people = <<>> THEN TRUE ELSE Rank(people[Len(people)]) <= Rank(p)
          /\ people' = Append(people, p)
    /\ UNCHANGED report
    /\ UNCHANGED <<trainVars, lossVars, loadVars>>

\* _performance_text: metrics.roc_auc_score raises ValueError unless y_test
\* holds both classes; then accuracy, p_rule, fp_rate and fn_rate are computed
\* with their default threshold.
PerformanceText ==
    /\ report.who = "none"
    /\ people # <<>>
    /\ IF \A i \in DOMAIN people : people[i].y = people[1].y
       THEN report' = [who |-> "raised"]
       ELSE report' = [who |-> "_performance_text",
                       accuracy |-> accuracy_score(Y_test, Y_pred),
                       p_rules |-> p_rule(Y_pred, Z_test, Threshold),
                       fp_rates |-> fp_rate(Y_test, Y_pred, Z_test, Threshold),
                       fn_rates |-> fn_rate(Y_test, Y_pred, Z_test, Threshold)]
    /\ UNCHANGED people
    /\ UNCHANGED <<trainVars, lossVars, loadVars>>

\* p_rule called on its own
CallPRule ==
    /\ report.who = "none"
    /\ report' = [who |-> "p_rule", value |-> p_rule(Y_pred, Z_test, Threshold)]
    /\ UNCHANGED people
    /\ UNCHANGED <<trainVars, lossVars, loadVars>>

\* fp_rate and fn_rate called on their own
CallRates ==
    /\ report.who = "none"
    /\ report' = [who |-> "rates",
                  fp_rates |-> fp_rate(Y_test, Y_pred, Z_test, Threshold),
                  fn_rates |-> fn_rate(Y_test, Y_pred, Z_test, Threshold)]
    /\ UNCHANGED people
    /\ UNCHANGED <<trainVars, lossVars, loadVars>>

MetricsNext == AddPerson \/ PerformanceText \/ CallPRule \/ CallRates

InitMetrics == TrainIdle /\ MetricsInit /\ LossIdle /\ LoadIdle

SpecMetrics == InitMetrics /\ [][MetricsNext]_vars

\* ------------------------------------------------------------------------
\* Claims about the metrics (checked under SpecMetrics)
\* ------------------------------------------------------------------------

\* The population counted directly, by index sets.
Group(g) == {i \in DOMAIN people : people[i].z = g}
Positives(g) == {i \in Group(g) : people[i].y = 1}
Negatives(g) == {i \in Group(g) : people[i].y = 0}
TaggedIn(S) == {i \in S : people[i].score > 5}
NotTaggedIn(S) == {i \in S : people[i].score <= 5}
BothClasses(g) == Positives(g) # {} /\ Negatives(g) # {}

RatEq(p, q) == p.den # 0 /\ q.den # 0 /\ p.num * q.den = q.num * p.den

\* The base rates (fraction of true-positive labels) of the two groups differ.
BaseRatesDiffer ==
    /\ Group(0) # {} /\ Group(1) # {}
    /\ Cardinality(Positives(0)) * Cardinality(Group(1))
         # Cardinality(Positives(1)) * Cardinality(Group(0))

\* The reported accuracy is above that of a random classifier, one that tags
\* the same number of people without regard to their label: with N people,
\* P of them positive and T tagged, chance is (P*T + (N-P)*(N-T)) / N^2.
\* (Equivalently: the true-positive rate is above the false-positive rate.)
BetterThanRandom ==
    LET N == Len(people)
        P == Cardinality({i \in DOMAIN people : people[i].y = 1})
        T == Cardinality(TaggedIn(DOMAIN people))
    IN  report.accuracy.num * N * N > report.accuracy.den * (P * T + (N - P) * (N - T))

FairFP == RatEq(report.fp_rates[0], report.fp_rates[1])
FairFN == RatEq(report.fn_rates[0], report.fn_rates[1])
FairPRule == RatEq(report.p_rules, Rat(100, 1))

C5_Rates ==
    report.who \in {"rates", "_performance_text"} =>
        \A g \in {0, 1} :
            BothClasses(g) =>
                LET fp == report.fp_rates[g]
                    fn == report.fn_rates[g]
                    flipped == [i \in DOMAIN people |-> 1 - people[i].y]
                    tp == fp_rate(flipped, Y_pred, Z_test, Threshold)[g]
                    tn == fn_rate(flipped, Y_pred, Z_test, Threshold)[g]
                IN  /\ fp = Rat(Cardinality(TaggedIn(Negatives(g))),
                                Cardinality(Negatives(g)))
                    /\ fn = Rat(Cardinality(NotTaggedIn(Positives(g))),
                                Cardinality(Positives(g)))
                    /\ fp.num + tn.num = Cardinality(Negatives(g))
                    /\ fn.num + tp.num = Cardinality(Positives(g))
                    /\ fp.num \in 0..fp.den /\ fn.num \in 0..fn.den

\* C5 witness: the rates have been computed for a group that holds a negative
\* and a positive scored exactly at the threshold, besides a tagged negative.
C5_Witness ==
    /\ report.who = "rates"
    /\ \E g \in {0, 1} :
          /\ \E i \in Negatives(g) : people[i].score = Threshold
          /\ \E i \in Positives(g) : people[i].score = Threshold
          /\ TaggedIn(Negatives(g)) # {}
          /\ report.fp_rates[g] = Rat(1, 2)
          /\ report.fn_rates[g] = Rat(1, 1)

\* ------------------------------------------------------------------------
\* The classifier's loss in train() (SpecLoss)
\*
\* A probability is a level in quarters (1, 2, 3 are 0.25, 0.5, 0.75); a loss
\* is fixed-point, in thousandths.
\* ------------------------------------------------------------------------
Levels == {1, 2, 3}

\* -log(level / 4), in thousandths
NegLog(level) == CASE level = 1 -> 1386 [] level = 2 -> 693 [] level = 3 -> 288

\* nn.BCELoss(reduce=False): -(t * log(p) + (1 - t) * log(1 - p)) per sample
BCEPerSample(p, t) ==
    [i \in DOMAIN p |-> IF t[i] = 1 THEN NegLog(p[i]) ELSE NegLog(4 - p[i])]

\* nn.BCELoss(): the mean of the per-sample losses
BCEMean(p, t) == SeriesSum(BCEPerSample(p, t)) \div Len(p)

\* lambdas = torch.Tensor([20])
lambdas == 20

\* Adverserial.forward on a batch: each output is computed from its own input
AdvForward(net, input) == [i \in DOMAIN input |-> net[input[i]]]

\* A faulty variant of ClfLoss: the adversary's term is added.
ClfLoss_Plus(target_loss, adv_losses) ==
    target_loss + SeriesSum([i \in DOMAIN adv_losses |-> adv_losses[i] * lambdas])

\* clf_criterion(p_y, y) - (clf_adv_criterion(adv(p_y), z) * lambdas).sum()
ClfLoss(target_loss, adv_losses) ==
    target_loss - SeriesSum([i \in DOMAIN adv_losses |-> adv_losses[i] * lambdas])

\* The batch as the series train() holds after its loop.
Batch_y == [i \in DOMAIN lossBatch |-> lossBatch[i].y]
Batch_z == [i \in DOMAIN lossBatch |-> lossBatch[i].z]
Batch_p_y == [i \in DOMAIN lossBatch |-> lossBatch[i].p]

\* What train() computes for its last batch with adversary `net`.
TrainLosses(net) ==
    LET p_adv == AdvForward(net, Batch_p_y)
        adv_losses == BCEPerSample(p_adv, Batch_z)
        target_loss == BCEMean(Batch_p_y, Batch_y)
    IN  [who |-> "train",
         p_adv |-> p_adv,
         loss_adv |-> BCEMean(p_adv, Batch_z),
         adv_losses |-> adv_losses,
         target_loss |-> target_loss,
         clf_loss |-> ClfLoss(target_loss, adv_losses)]

Sample == [y : {0, 1}, z : {0, 1}, p : Levels]

InitLoss ==
    /\ TrainIdle /\ MetricIdle /\ LoadIdle
    /\ lossBatch = <<>>
    /\ advNet \in [Levels -> Levels]
    /\ lossOut = NoLoss

\* the data loader yields the samples of the last batch; p is clf(x)
DrawSample ==
    /\ lossOut.who = "none"
    /\ Len(lossBatch) < MaxBatch
    /\ \E smp \in Sample : lossBatch' = Append(lossBatch, smp)
    /\ UNCHANGED <<advNet, lossOut>>
    /\ UNCHANGED <<trainVars, metricVars, loadVars>>

\* train: loss_adv and clf_loss on the last batch
ComputeLosses ==
    /\ lossOut.who = "none"
    /\ lossBatch # <<>>
    /\ lossOut' = TrainLosses(advNet)
    /\ UNCHANGED <<lossBatch, advNet>>
    /\ UNCHANGED <<trainVars, metricVars, loadVars>>

LossNext == DrawSample \/ ComputeLosses

SpecLoss == InitLoss /\ [][LossNext]_vars

\* C2: the adversary predicts z from p_y alone, and the classifier's loss is
\* BCE(p_y, y) minus 20 times the summed per-sample BCE(adv(p_y), z): at the
\* same target loss, any adversary with a lower loss on the batch would have
\* given the classifier a strictly higher loss.
C2_ClfLossPenalisesEasyAdversary ==
    lossOut.who = "train" =>
        /\ \A i, j \in DOMAIN lossBatch :
              lossBatch[i].p = lossBatch[j].p => lossOut.p_adv[i] = lossOut.p_adv[j]
        /\ lossOut.clf_loss = lossOut.target_loss - 20 * SeriesSum(lossOut.adv_losses)
        /\ \A net \in [Levels -> Levels] :
              LET other == TrainLosses(net)
              IN  /\ other.target_loss = lossOut.target_loss
                  /\ SeriesSum(other.adv_losses) < SeriesSum(lossOut.adv_losses)
                        => other.clf_loss > lossOut.clf_loss

\* C2 witness: the losses of a full model batch have been computed, and some
\* other adversary would have had a lower loss on it.
C2_Witness ==
    /\ lossOut.who = "train"
    /\ Len(lossBatch) = 2
    /\ lossBatch[1].p # lossBatch[2].p
    /\ \E net \in [Levels -> Levels] :
          SeriesSum(TrainLosses(net).adv_losses) < SeriesSum(lossOut.adv_losses)
    /\ lossOut.clf_loss < lossOut.target_loss

\* ------------------------------------------------------------------------
\* load_GEN_data (SpecLoad)
\*
\* A row of the file holds the protected group, the target (a float, in
\* tenths), a numeric feature x and a categorical feature cat.
\* ------------------------------------------------------------------------
CsvRow == [protected : {"A", "B", "C"}, target : {0, 10}, x : {0, 1}, cat : {"u", "v"}]

CsvColumns == <<"protected", "target", "x", "cat">>

\* A faulty variant of IsSensitive: the other group is marked.
IsSensitive_A(value) == value = "A"

\* df['protected'] == 'B'
IsSensitive(value) == value = "B"

\* .astype(int) of a bool
BoolAsInt(b) == IF b THEN 1 ELSE 0

\* .astype(int) of a float held in tenths: the fraction is cut off
FloatAsInt(tenths) == tenths \div 10

\* .drop(columns=...)
DropColumns(columns, dropped) ==
    SelectSeq(columns, LAMBDA c : c \notin dropped)

\* The name get_dummies gives the indicator column of a category of cat.
DummyName(category) == IF category = "u" THEN "cat_u" ELSE "cat_v"

\* pd.get_dummies(frame, drop_first=True): numeric columns stay; the object
\* column cat becomes one 0/1 column per category found in it, in sorted
\* order, the first category's column dropped.
GetDummiesColumns(columns, rows) ==
    LET found == {rows[i].cat : i \in DOMAIN rows}
        sorted == (IF "u" \in found THEN <<"u">> ELSE <<>>)
                  \o (IF "v" \in found THEN <<"v">> ELSE <<>>)
        kept == IF sorted = <<>> THEN <<>> ELSE Tail(sorted)
    IN  IF \E k \in DOMAIN columns : columns[k] = "cat"
        THEN SelectSeq(columns, LAMBDA c : c # "cat")
             \o [k \in DOMAIN kept |-> DummyName(kept[k])]
        ELSE columns

\* The value of column `c` of the frame get_dummies returns, in row `r`.
CellOf(r, c) ==
    CASE c = "x" -> r.x
      [] c = "target" -> r.target
      [] c = "protected" -> r.protected
      [] c = "cat_u" -> BoolAsInt(r.cat = "u")
      [] c = "cat_v" -> BoolAsInt(r.cat = "v")

\* load_GEN_data(path), on the rows pd.read_csv returned
load_GEN_data(input_data) ==
    LET Z == [i \in DOMAIN input_data |->
                [protected |-> BoolAsInt(IsSensitive(input_data[i].protected))]]
        y == [i \in DOMAIN input_data |-> FloatAsInt(input_data[i].target)]
        columns == GetDummiesColumns(DropColumns(CsvColumns, {"target", "protected"}),
                                     input_data)
        X == [columns |-> columns,
              rows |-> [i \in DOMAIN input_data |->
                          [k \in DOMAIN columns |-> CellOf(input_data[i], columns[k])]]]
    IN  [who |-> "load_GEN_data", X |-> X, y |-> y, Z |-> Z]

InitLoad ==
    /\ TrainIdle /\ MetricIdle /\ LossIdle
    /\ csv = <<>>
    /\ loaded = NotLoaded

\* the file grows by a row
WriteRow ==
    /\ loaded.who = "none"
    /\ Len(csv) < MaxCsvRows
    /\ \E r \in CsvRow : csv' = Append(csv, r)
    /\ UNCHANGED loaded
    /\ UNCHANGED <<trainVars, metricVars, lossVars>>

\* X, y, Z = load_GEN_data(path)
CallLoad ==
    /\ loaded.who = "none"
    /\ loaded' = load_GEN_data(csv)
    /\ UNCHANGED csv
    /\ UNCHANGED <<trainVars, metricVars, lossVars>>

LoadNext == WriteRow \/ CallLoad

SpecLoad == InitLoad /\ [][LoadNext]_vars

\* C6: load_GEN_data returns X, y, Z with one row per input row, in the
\* input's order: Z.protected is 1 exactly where protected is 'B', y is the
\* integer value of target, and X has neither a target nor a protected column.
C6_LoadGenData ==
    loaded.who = "load_GEN_data" =>
        /\ Len(loaded.X.rows) = Len(csv)
        /\ Len(loaded.y) = Len(csv)
        /\ Len(loaded.Z) = Len(csv)
        /\ \A i \in DOMAIN csv :
              /\ loaded.Z[i].protected = 1 <=> csv[i].protected = "B"
              /\ loaded.Z[i].protected = 0 <=> csv[i].protected # "B"
              /\ loaded.y[i] * 10 = csv[i].target
              /\ \A k \in DOMAIN loaded.X.columns :
                    /\ loaded.X.columns[k] = "x" => loaded.X.rows[i][k] = csv[i].x
                    /\ loaded.X.columns[k] = "cat_v"
                          => (loaded.X.rows[i][k] = 1 <=> csv[i].cat = "v")
        /\ \A k \in DOMAIN loaded.X.columns :
              loaded.X.columns[k] \notin {"target", "protected"}
        /\ \E k \in DOMAIN loaded.X.columns : loaded.X.columns[k] = "x"

\* C6 witness: a file whose rows are of groups B, C and A, in that order, with
\* differing targets and features, has been loaded.
C6_Witness ==
    /\ loaded.who = "load_GEN_data"
    /\ Len(csv) = 3
    /\ csv[1].protected = "B" /\ csv[2].protected = "C" /\ csv[3].protected = "A"
    /\ csv[1].target = 10 /\ csv[2].target = 0
    /\ csv[1].cat = "v" /\ csv[2].cat = "u"
    /\ loaded.Z = <<[protected |-> 1], [protected |-> 0], [protected |-> 0]>>
    /\ loaded.X.columns = <<"x", "cat_v">>
====
